---- MODULE Spec2Model ----
(***************************************************************************)
(* A model of index.js: four node:stream objects (a Readable, a Writable,  *)
(* a Duplex and a Transform, all in object mode) driven by one ES module   *)
(* with top-level await.  The module body is one job; each for-await loop  *)
(* runs as a chain of promise jobs and suspends only when stream.read()    *)
(* has nothing to return; process.nextTick callbacks run, first in first   *)
(* out, whenever the promise jobs have run dry.                            *)
(*                                                                         *)
(* The whole mutable program state is carried through the operators as one *)
(* record w ("the world"), so that a call such as writable.write(item) is  *)
(* one operator from world to world and includes every call it makes.      *)
(***************************************************************************)
EXTENDS Integers, Sequences, FiniteSets, TLC

\* ---------------------------------------------------------------- bounds
\* Longest arbitrary input sequence, and how many distinct numbers / letters
\* it is drawn from.
MaxLen == 3
MaxNum == 2
\* Longest input written to the transform before it is read (a repetition of
\* the program's own four items); past 2 * HighWaterMark - 1 items a write
\* returns false.
MaxItems == 32

\* ------------------------------------------------------- program constants
\* The default highWaterMark of a stream constructed with objectMode: true.
HighWaterMark == 16

ReadableItemsLit == <<1, 2, 3, 4>>
ItemsLit == <<1, 2, 3, 4>>
DuplexReadItemsLit == <<1, 2, 3, 4>>
DuplexWriteItemsLit == <<"a", "b", "c", "d">>

\* A transform item carries its JavaScript type: typeof chunk is chunk.type.
Num(n) == [type |-> "number", num |-> n, str |-> ""]
Str(s) == [type |-> "string", num |-> 0, str |-> s]
TransformItemsLit == <<Num(1), Str("a"), Num(2), Str("b")>>

\* ------------------------------------------------------------------ inputs
Letters == <<"a", "b", "c", "d">>
Nums == 1..MaxNum
Strs == {Letters[k] : k \in 1..(IF MaxNum < 4 THEN MaxNum ELSE 4)}

SeqsUpTo(S, n) == UNION {[1..k -> S] : k \in 0..n}

\* The first n items of the program's transformItems repeated for ever.
Repeated(n) == [k \in 1..n |-> TransformItemsLit[((k - 1) % 4) + 1]]

\* The array [1, 2, ..., n].
Counted(n) == [k \in 1..n |-> k]

NumInputs == SeqsUpTo(Nums, MaxLen)
LongNumInputs == {Counted(n) : n \in HighWaterMark..MaxItems}
StrInputs == SeqsUpTo(Strs, MaxLen)
TransformInputs ==
    SeqsUpTo({Num(n) : n \in Nums} \cup {Str(s) : s \in Strs}, MaxLen)
        \cup {Repeated(n) : n \in 0..MaxItems}

\* ------------------------------------------------------------------- state
VARIABLES
    readableItems, items, duplexReadItems, duplexWriteItems, transformItems,
    streams,        \* readable, writable, duplex, transform: their internal state
    currentIndex, duplexIndex,
    console,        \* what each console.log call site has printed
    ticks,          \* the process.nextTick queue
    iter,           \* the async iterator of the running for-await loop
    blocked,        \* the module is suspended at an await nothing has resolved
    phase,          \* "micro": promise jobs run; "tick": the nextTick queue runs
    pc, i,          \* the statement the module is at, and its for-of index
    pushLog, writeLog   \* every value push() and write() have returned

inputs == <<readableItems, items, duplexReadItems, duplexWriteItems, transformItems>>
vars == <<readableItems, items, duplexReadItems, duplexWriteItems, transformItems,
          streams, currentIndex, duplexIndex, console, ticks, iter, blocked,
          phase, pc, i, pushLog, writeLog>>

Names == {"readable", "writable", "duplex", "transform"}
ReadableNames == {"readable", "duplex", "transform"}   \* have a _readableState
WritableNames == {"writable", "duplex", "transform"}   \* have a _writableState

\* _readableState of a new stream.
NewReadableState ==
    [buffer |-> <<>>, ended |-> FALSE, endEmitted |-> FALSE, reading |-> FALSE,
     sync |-> FALSE, needReadable |-> FALSE, emittedReadable |-> FALSE,
     readingMore |-> FALSE]

\* _writableState of a new stream.  afterWriteTickInfo is the count of the
\* pending afterWriteTick, 0 for null.
NewWritableState ==
    [length |-> 0, writing |-> FALSE, sync |-> FALSE, buffered |-> <<>>,
     ending |-> FALSE, ended |-> FALSE, finished |-> FALSE,
     prefinished |-> FALSE, pendingcb |-> 0, needDrain |-> FALSE,
     afterWriteTickInfo |-> 0]

\* A new stream.  kCallback: the Transform holds a write callback back.
\* emitted counts the events emitted; events is the history of the write (or
\* transform) callback: "call" when it is entered, "done" when it signals
\* completion; readCalls counts the calls of the read callback, readLog holds
\* what each call found (the items buffered, whether the end had been pushed,
\* whether an iterator was listening) and eofs counts the calls of push(null).
NewStream(autoDestroy) ==
    [r |-> NewReadableState, w |-> NewWritableState,
     autoDestroy |-> autoDestroy, destroyed |-> FALSE, errored |-> "",
     closeEmitted |-> FALSE, kCallback |-> FALSE,
     emitted |-> [end |-> 0, finish |-> 0, drain |-> 0, readable |-> 0],
     events |-> <<>>, readCalls |-> 0, readLog |-> {}, eofs |-> 0]

World ==
    [streams |-> streams, currentIndex |-> currentIndex,
     duplexIndex |-> duplexIndex, console |-> console, ticks |-> ticks,
     iter |-> iter, blocked |-> blocked, pushLog |-> pushLog,
     writeLog |-> writeLog, chunk |-> <<>>]

Commit(w) ==
    /\ streams' = w.streams
    /\ currentIndex' = w.currentIndex
    /\ duplexIndex' = w.duplexIndex
    /\ console' = w.console
    /\ ticks' = w.ticks
    /\ iter' = w.iter
    /\ blocked' = w.blocked
    /\ pushLog' = w.pushLog
    /\ writeLog' = w.writeLog

\* process.nextTick(fn, stream)
NextTick(w, fn, n) == [w EXCEPT !.ticks = Append(@, [fn |-> fn, stream |-> n])]

NoIter == [stream |-> "none", started |-> FALSE, error |-> "undefined"]

\* --------------------------------------------------------------- destroy
\* stream.destroy(): marks the stream destroyed and schedules 'close'.
Destroy(w, n) ==
    IF w.streams[n].destroyed THEN w
    ELSE NextTick([w EXCEPT !.streams[n].destroyed = TRUE], "emitCloseNT", n)

\* errorOrDestroy(stream, err): nothing on a destroyed stream; otherwise the
\* stream is errored, and destroyed when autoDestroy is set.
ErrorOrDestroy(w, n, err) ==
    IF w.streams[n].destroyed THEN w
    ELSE LET w1 == [w EXCEPT !.streams[n].errored = err]
         IN IF w.streams[n].autoDestroy THEN Destroy(w1, n) ELSE w1

\* ------------------------------------------------------- the async iterator
\* The 'readable' listener of the iterator (next): resolves the promise the
\* loop awaits.
OnReadable(w, n) ==
    LET w1 == [w EXCEPT !.streams[n].emitted.readable = @ + 1]
    IN IF w.iter.stream = n /\ w.iter.started
       THEN [w1 EXCEPT !.blocked = FALSE] ELSE w1

\* The 'end' listener (eos's callback): error = null, and the promise resolves.
OnEnd(w, n) ==
    LET w1 == [w EXCEPT !.streams[n].emitted.end = @ + 1]
    IN IF w.iter.stream = n /\ w.iter.started
       THEN [w1 EXCEPT !.blocked = FALSE, !.iter.error = "null"] ELSE w1

\* ---------------------------------------------------------------- Readable
\* emitReadable(stream)
EmitReadable(w, n) ==
    LET w1 == [w EXCEPT !.streams[n].r.needReadable = FALSE]
    IN IF ~w.streams[n].r.emittedReadable
       THEN NextTick([w1 EXCEPT !.streams[n].r.emittedReadable = TRUE],
                     "emitReadable_", n)
       ELSE w1

\* emitReadable_(stream).  No stream of the program is flowing (nothing
\* listens for 'data', pipes or resumes), so flow() does nothing.
EmitReadable_(w, n) ==
    LET s == w.streams[n]
        w1 == IF ~s.destroyed /\ s.errored = "" /\ (Len(s.r.buffer) > 0 \/ s.r.ended)
              THEN [OnReadable(w, n) EXCEPT !.streams[n].r.emittedReadable = FALSE]
              ELSE w
    IN [w1 EXCEPT !.streams[n].r.needReadable =
                     ~s.r.ended /\ Len(s.r.buffer) <= HighWaterMark]

\* maybeReadMore(stream, state)
MaybeReadMore(w, n) ==
    IF ~w.streams[n].r.readingMore
    THEN NextTick([w EXCEPT !.streams[n].r.readingMore = TRUE], "maybeReadMore_", n)
    ELSE w

\* (mutant) push keeps returning true with highWaterMark items buffered.
PushRetLate(len, ended) == ~ended /\ (len <= HighWaterMark \/ len = 0)

\* What push(chunk) returns with len items buffered.
PushRet(len, ended) == ~ended /\ (len < HighWaterMark \/ len = 0)

\* (mutant) addChunk that puts the chunk in front of the buffer.
AddChunkFront(w, n, chunk) ==
    LET w1 == [w EXCEPT !.streams[n].r.buffer = <<chunk>> \o @]
    IN MaybeReadMore(IF w.streams[n].r.needReadable THEN EmitReadable(w1, n) ELSE w1,
                     n)

\* addChunk(stream, state, chunk, false): the chunk is buffered, 'readable' is
\* scheduled if someone waits for it, and more is read ahead on a later tick.
AddChunk(w, n, chunk) ==
    LET w1 == [w EXCEPT !.streams[n].r.buffer = Append(@, chunk)]
    IN MaybeReadMore(IF w.streams[n].r.needReadable THEN EmitReadable(w1, n) ELSE w1,
                     n)

\* The value push() returns, recorded with the buffer length it was computed
\* from.
PushReturn(w, n) ==
    [w EXCEPT !.pushLog = @ \cup
        {[stream |-> n, length |-> Len(w.streams[n].r.buffer),
          ret |-> PushRet(Len(w.streams[n].r.buffer), w.streams[n].r.ended)]}]

\* readable.push(chunk) for a chunk that is not null: readableAddChunk.
Push(w, n, chunk) ==
    IF w.streams[n].r.ended
    THEN ErrorOrDestroy(w, n, "ERR_STREAM_PUSH_AFTER_EOF")
    ELSE PushReturn(AddChunk([w EXCEPT !.streams[n].r.reading = FALSE], n, chunk), n)

\* (mutant) push(null) that does not record that the stream has ended.
PushNullOpen(w, n) ==
    LET w1 == [w EXCEPT !.streams[n].r.reading = FALSE,
                        !.streams[n].eofs = @ + 1]
    IN IF w.streams[n].r.ended THEN w1
       ELSE IF w.streams[n].r.sync THEN EmitReadable(w1, n)
       ELSE EmitReadable_([w1 EXCEPT !.streams[n].r.needReadable = FALSE,
                                     !.streams[n].r.emittedReadable = TRUE], n)

\* readable.push(null): onEofChunk.
PushNull(w, n) ==
    LET w1 == [w EXCEPT !.streams[n].r.reading = FALSE,
                        !.streams[n].eofs = @ + 1]
    IN IF w.streams[n].r.ended THEN w1
       ELSE LET w2 == [w1 EXCEPT !.streams[n].r.ended = TRUE]
            IN IF w.streams[n].r.sync THEN EmitReadable(w2, n)
               ELSE EmitReadable_([w2 EXCEPT !.streams[n].r.needReadable = FALSE,
                                             !.streams[n].r.emittedReadable = TRUE], n)

\* endReadable(stream)
EndReadable(w, n) ==
    IF ~w.streams[n].r.endEmitted
    THEN NextTick([w EXCEPT !.streams[n].r.ended = TRUE], "endReadableNT", n)
    ELSE w

\* endReadableNT(state, stream): emits 'end' once; allowHalfOpen is true, so
\* the write side is not ended; the stream is destroyed when autoDestroy is
\* set and there is no write side or the write side has finished.
AutoDestroyOnEnd(w, n) ==
    IF w.streams[n].autoDestroy /\ (n \notin WritableNames \/ w.streams[n].w.finished)
    THEN Destroy(w, n) ELSE w

EndReadableNT(w, n) ==
    LET s == w.streams[n]
    IN IF s.errored = "" /\ ~s.closeEmitted /\ ~s.r.endEmitted /\ Len(s.r.buffer) = 0
       THEN AutoDestroyOnEnd(OnEnd([w EXCEPT !.streams[n].r.endEmitted = TRUE], n), n)
       ELSE w

\* emitCloseNT(stream)
EmitCloseNT(w, n) == [w EXCEPT !.streams[n].closeEmitted = TRUE]

\* ---------------------------------------------------------------- Writable
\* needFinish(state)
NeedFinish(s) ==
    /\ s.w.ending /\ ~s.destroyed /\ s.w.length = 0 /\ s.errored = ""
    /\ s.w.buffered = <<>> /\ ~s.w.finished /\ ~s.w.writing /\ ~s.closeEmitted

\* finish(stream, state): emits 'finish'; the stream is destroyed when
\* autoDestroy is set and there is no read side or the read side has ended.
Finish(w, n) ==
    LET s == w.streams[n]
        w1 == [w EXCEPT !.streams[n].w.pendingcb = @ - 1,
                        !.streams[n].w.finished = TRUE,
                        !.streams[n].emitted.finish = @ + 1]
    IN IF s.autoDestroy /\ (n \notin ReadableNames \/ s.r.endEmitted)
       THEN Destroy(w1, n) ELSE w1

\* finishMaybe(stream, state, sync), with prefinish.  (A Transform's _final
\* runs only from here, after end(), which the program never calls on
\* transform.)
FinishMaybe(w, n, sync) ==
    IF NeedFinish(w.streams[n])
    THEN LET w1 == [w EXCEPT !.streams[n].w.prefinished = TRUE]
         IN IF w1.streams[n].w.pendingcb = 0
            THEN LET w2 == [w1 EXCEPT !.streams[n].w.pendingcb = @ + 1]
                 IN IF sync THEN NextTick(w2, "finishNT", n) ELSE Finish(w2, n)
            ELSE w1
    ELSE w

\* The callback finishMaybe defers with process.nextTick.
FinishNT(w, n) ==
    IF NeedFinish(w.streams[n]) THEN Finish(w, n)
    ELSE [w EXCEPT !.streams[n].w.pendingcb = @ - 1]

\* (mutant) afterWrite that does not count the completed writes off pendingcb.
AfterWriteNoCount(w, n, count) ==
    LET s == w.streams[n]
        drain == ~s.w.ending /\ ~s.destroyed /\ s.w.length = 0 /\ s.w.needDrain
    IN FinishMaybe(IF drain
                   THEN [w EXCEPT !.streams[n].w.needDrain = FALSE,
                                  !.streams[n].emitted.drain = @ + 1]
                   ELSE w, n, FALSE)

\* (mutant) afterWrite that emits 'drain' whether or not a write returned false.
AfterWriteAlwaysDrain(w, n, count) ==
    LET s == w.streams[n]
        drain == ~s.w.ending /\ ~s.destroyed /\ s.w.length = 0
        w1 == IF drain
              THEN [w EXCEPT !.streams[n].w.needDrain = FALSE,
                             !.streams[n].emitted.drain = @ + 1]
              ELSE w
    IN FinishMaybe([w1 EXCEPT !.streams[n].w.pendingcb = @ - count], n, FALSE)

\* afterWrite(stream, state, count, cb): emits 'drain' when a write had
\* returned false and the stream has emptied; cb is the no-op default.
AfterWrite(w, n, count) ==
    LET s == w.streams[n]
        drain == ~s.w.ending /\ ~s.destroyed /\ s.w.length = 0 /\ s.w.needDrain
        w1 == IF drain
              THEN [w EXCEPT !.streams[n].w.needDrain = FALSE,
                             !.streams[n].emitted.drain = @ + 1]
              ELSE w
    IN FinishMaybe([w1 EXCEPT !.streams[n].w.pendingcb = @ - count], n, FALSE)

\* afterWriteTick(info)
AfterWriteTick(w, n) ==
    AfterWrite([w EXCEPT !.streams[n].w.afterWriteTickInfo = 0], n,
               w.streams[n].w.afterWriteTickInfo)

\* onwrite(stream, er) called without an error while _write is still on the
\* stack (state.sync): the buffer is empty or being processed by the caller,
\* so clearBuffer returns at once, and afterWrite is deferred to one tick
\* that counts the writes completed before it runs.
OnWriteSync(w, n) ==
    LET w1 == [w EXCEPT !.streams[n].w.writing = FALSE,
                        !.streams[n].w.length = @ - 1]
    IN IF w.streams[n].w.afterWriteTickInfo > 0
       THEN [w1 EXCEPT !.streams[n].w.afterWriteTickInfo = @ + 1]
       ELSE NextTick([w1 EXCEPT !.streams[n].w.afterWriteTickInfo = 1],
                     "afterWriteTick", n)

\* ------------------------------------------- the callbacks of the program
\* (mutant) a write callback that never calls done.
WritableWriteNoDone(w, chunk) ==
    [w EXCEPT !.console.writable = Append(@, chunk),
              !.streams["writable"].events = Append(@, "call")]

\* writable: write(chunk, encoding, done) { console.log(...); done(); }
WritableWrite(w, chunk) ==
    OnWriteSync([w EXCEPT !.console.writable = Append(@, chunk),
                          !.streams["writable"].events = @ \o <<"call", "done">>],
                "writable")

\* (mutant) a write callback that hands what is written to the read side,
\* as a pass-through does.
DuplexWriteThrough(w, chunk) ==
    OnWriteSync(Push([w EXCEPT !.console.duplexWrite = Append(@, chunk),
                               !.streams["duplex"].events = @ \o <<"call", "done">>],
                     "duplex", chunk),
                "duplex")

\* duplex: write(chunk, encoding, done) { console.log(...); done(); }
DuplexWrite(w, chunk) ==
    OnWriteSync([w EXCEPT !.console.duplexWrite = Append(@, chunk),
                          !.streams["duplex"].events = @ \o <<"call", "done">>],
                "duplex")

\* n.toFixed(1) of an integer n.
ToFixed1(n) == ToString(n) \o ".0"

\* s.toUpperCase() of the one-letter strings the inputs are made of.
ToUpperCase(s) ==
    CASE s = "a" -> "A" [] s = "b" -> "B" [] s = "c" -> "C" [] s = "d" -> "D"
      [] OTHER -> s

\* (mutant) the mapping without toUpperCase.
TransformTransformAsIs(chunk) ==
    IF chunk.type = "number"
    THEN "number: " \o ToFixed1(chunk.num)
    ELSE "string: " \o chunk.str

\* The value transform's callback hands to next(null, value).
TransformTransform(chunk) ==
    IF chunk.type = "number"
    THEN "number: " \o ToFixed1(chunk.num)
    ELSE "string: " \o ToUpperCase(chunk.str)

\* (mutant) a callback that completes the write whatever the read buffer
\* holds.
TransformCallbackNow(w, length) == OnWriteSync(w, "transform")

\* The callback Transform.prototype._write hands to _transform, after it has
\* pushed the value: the write completes unless the read buffer has reached
\* highWaterMark, in which case its completion is held back (kCallback) until
\* the next _read.
TransformCallback(w, length) ==
    LET s == w.streams["transform"]
    IN IF s.r.ended \/ s.w.ended \/ length = Len(s.r.buffer)
            \/ Len(s.r.buffer) < HighWaterMark
       THEN OnWriteSync(w, "transform")
       ELSE [w EXCEPT !.streams["transform"].kCallback = TRUE]

\* Transform.prototype._write: runs the mapping, which hands its value to
\* next (the callback above) before it returns.
TransformWrite(w, chunk) ==
    TransformCallback(
        Push([w EXCEPT !.streams["transform"].events = @ \o <<"call", "done">>],
             "transform", TransformTransform(chunk)),
        Len(w.streams["transform"].r.buffer))

\* stream._write(chunk, encoding, state.onwrite)
CallWrite(w, n, chunk) ==
    CASE n = "writable" -> WritableWrite(w, chunk)
      [] n = "duplex" -> DuplexWrite(w, chunk)
      [] n = "transform" -> TransformWrite(w, chunk)

\* doWrite(stream, state, false, len, chunk, encoding, cb)
DoWrite(w, n, chunk) ==
    LET w1 == CallWrite([w EXCEPT !.streams[n].w.writing = TRUE,
                                  !.streams[n].w.sync = TRUE], n, chunk)
    IN [w1 EXCEPT !.streams[n].w.sync = FALSE]

\* clearBuffer(stream, state): hands the buffered writes to _write, one after
\* the other, for as long as each completes before it returns.
RECURSIVE ClearBuffer(_, _)
ClearBufferWhile(w, n) ==
    IF w.streams[n].w.buffered # <<>> /\ ~w.streams[n].w.writing
    THEN ClearBuffer(w, n) ELSE w

ClearBuffer(w, n) ==
    IF w.streams[n].w.buffered = <<>> \/ w.streams[n].destroyed THEN w
    ELSE ClearBufferWhile(DoWrite([w EXCEPT !.streams[n].w.buffered = Tail(@)], n,
                                  Head(w.streams[n].w.buffered)), n)

\* onwrite(stream, er) called without an error after _write has returned (the
\* completion a Transform held back): the buffered writes go on, then
\* afterWrite runs at once.
OnWriteAsync(w, n) ==
    AfterWrite(ClearBuffer([w EXCEPT !.streams[n].w.writing = FALSE,
                                     !.streams[n].w.length = @ - 1], n), n, 1)

\* What write(chunk) returns with len items counted in state.length.
WriteRet(len) == len < HighWaterMark

\* The value write() returns, recorded with the state.length it was computed
\* from.
WriteReturn(w, n, len) ==
    [w EXCEPT !.writeLog = @ \cup
        {[stream |-> n, length |-> len,
          ret |-> WriteRet(len) /\ w.streams[n].errored = ""
                      /\ ~w.streams[n].destroyed]}]

\* (mutant) writeOrBuffer that does not keep the chunk of a write that
\* returns false.
WriteOrBufferRefuse(w, n, chunk) ==
    LET len == w.streams[n].w.length + 1
        w1 == [w EXCEPT !.streams[n].w.length = len,
                        !.streams[n].w.needDrain = IF WriteRet(len) THEN @ ELSE TRUE]
    IN WriteReturn(IF ~WriteRet(len)
                   THEN [w EXCEPT !.streams[n].w.needDrain = TRUE,
                                  !.streams[n].w.pendingcb = @ - 1]
                   ELSE IF w.streams[n].w.writing \/ w.streams[n].errored # ""
                   THEN [w1 EXCEPT !.streams[n].w.buffered = Append(@, chunk)]
                   ELSE DoWrite(w1, n, chunk),
                   n, len)

\* writeOrBuffer(stream, state, chunk, encoding, callback)
WriteOrBuffer(w, n, chunk) ==
    LET len == w.streams[n].w.length + 1
        w1 == [w EXCEPT !.streams[n].w.length = len,
                        !.streams[n].w.needDrain = IF WriteRet(len) THEN @ ELSE TRUE]
    IN WriteReturn(IF w.streams[n].w.writing \/ w.streams[n].errored # ""
                   THEN [w1 EXCEPT !.streams[n].w.buffered = Append(@, chunk)]
                   ELSE DoWrite(w1, n, chunk),
                   n, len)

\* (mutant) write that does not look at state.destroyed.
WriteDestroyed(w, n, chunk) ==
    IF w.streams[n].w.ending
    THEN ErrorOrDestroy(w, n, "ERR_STREAM_WRITE_AFTER_END")
    ELSE WriteOrBuffer([w EXCEPT !.streams[n].w.pendingcb = @ + 1], n, chunk)

\* stream.write(chunk): an error, and no write, once end() has been called or
\* the stream is destroyed.
Write(w, n, chunk) ==
    IF w.streams[n].w.ending
    THEN ErrorOrDestroy(w, n, "ERR_STREAM_WRITE_AFTER_END")
    ELSE IF w.streams[n].destroyed
    THEN ErrorOrDestroy(w, n, "ERR_STREAM_DESTROYED")
    ELSE WriteOrBuffer([w EXCEPT !.streams[n].w.pendingcb = @ + 1], n, chunk)

\* stream.end()
End(w, n) ==
    IF w.streams[n].errored = "" /\ ~w.streams[n].w.ending
    THEN [FinishMaybe([w EXCEPT !.streams[n].w.ending = TRUE], n, TRUE)
            EXCEPT !.streams[n].w.ended = TRUE]
    ELSE w

\* ---------------------------------------------------- the read callbacks
\* (mutant) a read callback that does not advance currentIndex.
ReadableReadSame(w) ==
    IF w.currentIndex = Len(readableItems)
    THEN PushNull(w, "readable")
    ELSE Push(w, "readable", readableItems[w.currentIndex + 1])

\* (mutant) a read callback without the else: at the end of the array it
\* pushes null and then pushes once more.
ReadableReadOn(w) ==
    IF w.currentIndex = Len(readableItems)
    THEN Push(PushNull(w, "readable"), "readable", 0)
    ELSE Push([w EXCEPT !.currentIndex = @ + 1], "readable",
              readableItems[w.currentIndex + 1])

\* readable: read() { if (currentIndex == readableItems.length) push(null)
\*                    else push(readableItems[currentIndex++]) }
ReadableRead(w) ==
    IF w.currentIndex = Len(readableItems)
    THEN PushNull(w, "readable")
    ELSE Push([w EXCEPT !.currentIndex = @ + 1], "readable",
              readableItems[w.currentIndex + 1])

\* duplex: read() { if (duplexIndex >= duplexReadItems.length) push(null)
\*                  else push(duplexReadItems[duplexIndex++]) }
DuplexRead(w) ==
    IF w.duplexIndex >= Len(duplexReadItems)
    THEN PushNull(w, "duplex")
    ELSE Push([w EXCEPT !.duplexIndex = @ + 1], "duplex",
              duplexReadItems[w.duplexIndex + 1])

\* Transform.prototype._read: releases the write completion held back.
TransformRead(w) ==
    IF w.streams["transform"].kCallback
    THEN OnWriteAsync([w EXCEPT !.streams["transform"].kCallback = FALSE],
                      "transform")
    ELSE w

\* The read callback of stream n is entered.
Called(w, n) ==
    [w EXCEPT !.streams[n].readCalls = @ + 1,
              !.streams[n].readLog = @ \cup
                  {[length |-> Len(w.streams[n].r.buffer),
                    ended |-> w.streams[n].r.ended,
                    listening |-> w.iter.stream = n]}]

\* this._read(state.highWaterMark)
CallRead(w, n) ==
    CASE n = "readable" -> ReadableRead(Called(w, "readable"))
      [] n = "duplex" -> DuplexRead(Called(w, "duplex"))
      [] n = "transform" -> TransformRead(w)

\* howMuchToRead(n, state) in object mode, for n = 0 (zero) and n = undefined.
HowMuchToRead(zero, s) ==
    IF zero \/ (Len(s.r.buffer) = 0 /\ s.r.ended) THEN 0 ELSE 1

\* The end of stream.read(): the chunk is taken from the buffer (fromList),
\* needReadable is set when the buffer is left empty, and the end is
\* scheduled when the stream has ended and this was not a read(0).
FromList(w, n, zero, k) ==
    LET s == w.streams[n]
        some == k > 0 /\ Len(s.r.buffer) > 0
        w2 == IF some
              THEN [w EXCEPT !.chunk = <<Head(s.r.buffer)>>,
                             !.streams[n].r.buffer = Tail(@)]
              ELSE [w EXCEPT !.streams[n].r.needReadable =
                                 Len(s.r.buffer) <= HighWaterMark]
        w3 == IF ~s.r.ended
              THEN [w2 EXCEPT !.streams[n].r.needReadable = TRUE]
              ELSE w2
    IN IF Len(w2.streams[n].r.buffer) = 0
       THEN IF ~zero /\ s.r.ended THEN EndReadable(w3, n) ELSE w3
       ELSE w2

\* After this._read() has returned: n is computed again if the callback
\* pushed.
AfterCallRead(w, n, zero, k) ==
    FromList([w EXCEPT !.streams[n].r.sync = FALSE], n, zero,
             IF ~w.streams[n].r.reading THEN HowMuchToRead(zero, w.streams[n]) ELSE k)

\* stream.read(n), n = 0 (zero) or no argument.  The chunk returned is left
\* in w.chunk: <<c>>, or <<>> for null.
ReadFrom(w, n, zero) ==
    LET s == w.streams[n]
        len == Len(s.r.buffer)
        k == HowMuchToRead(zero, s)
        doRead == /\ s.r.needReadable \/ len = 0 \/ len - k < HighWaterMark
                  /\ ~(s.r.ended \/ s.r.reading \/ s.destroyed \/ s.errored # "")
    IN IF zero /\ s.r.needReadable /\ (len >= HighWaterMark \/ s.r.ended)
       THEN IF len = 0 /\ s.r.ended THEN EndReadable(w, n) ELSE EmitReadable(w, n)
       ELSE IF k = 0 /\ s.r.ended
       THEN IF len = 0 THEN EndReadable(w, n) ELSE w
       ELSE IF doRead
       THEN AfterCallRead(
                CallRead([w EXCEPT !.streams[n].r.reading = TRUE,
                                   !.streams[n].r.sync = TRUE,
                                   !.streams[n].r.needReadable =
                                       IF len = 0 THEN TRUE ELSE @], n),
                n, zero, k)
       ELSE FromList(w, n, zero, k)

Read(w, n, zero) ==
    ReadFrom([w EXCEPT !.chunk = <<>>,
                       !.streams[n].r.emittedReadable = IF zero THEN @ ELSE FALSE],
             n, zero)

\* maybeReadMore_(stream, state): read(0) until the buffer reaches
\* highWaterMark, the stream ends or a read(0) adds nothing.
RECURSIVE MaybeReadMoreLoop(_, _)
MaybeReadMoreWhile(w, n, len) ==
    IF Len(w.streams[n].r.buffer) = len THEN w ELSE MaybeReadMoreLoop(w, n)

MaybeReadMoreLoop(w, n) ==
    LET s == w.streams[n]
    IN IF ~s.r.reading /\ ~s.r.ended /\ Len(s.r.buffer) < HighWaterMark
       THEN MaybeReadMoreWhile(Read(w, n, TRUE), n, Len(s.r.buffer))
       ELSE w

MaybeReadMore_(w, n) ==
    [MaybeReadMoreLoop(w, n) EXCEPT !.streams[n].r.readingMore = FALSE]

\* nReadingNextTick(self)
NReadingNextTick(w, n) == Read(w, n, TRUE)

\* stream.on('readable', next)
OnReadableListener(w, n) ==
    LET s == w.streams[n]
        w1 == [w EXCEPT !.streams[n].r.needReadable = TRUE,
                        !.streams[n].r.emittedReadable = FALSE]
    IN IF Len(s.r.buffer) > 0 THEN EmitReadable(w1, n)
       ELSE IF ~s.r.reading THEN NextTick(w1, "nReadingNextTick", n)
       ELSE w1

\* ------------------------------------------------------------- the program
\* The inputs: the arrays of the program, one of them at a time replaced by
\* any sequence within the bounds; and the duplex's autoDestroy option, which
\* the program sets to false and which defaults to true.
Literals ==
    [readableItems |-> ReadableItemsLit, items |-> ItemsLit,
     duplexReadItems |-> DuplexReadItemsLit,
     duplexWriteItems |-> DuplexWriteItemsLit,
     transformItems |-> TransformItemsLit, autoDestroy |-> FALSE]

Inputs ==
    {[Literals EXCEPT !.readableItems = s] : s \in NumInputs \cup LongNumInputs}
      \cup {[Literals EXCEPT !.items = s] : s \in NumInputs}
      \cup {[Literals EXCEPT !.duplexReadItems = s, !.autoDestroy = a] :
                s \in NumInputs, a \in BOOLEAN}
      \cup {[Literals EXCEPT !.duplexReadItems = s] : s \in LongNumInputs}
      \cup {[Literals EXCEPT !.duplexWriteItems = s, !.autoDestroy = a] :
                s \in StrInputs, a \in BOOLEAN}
      \cup {[Literals EXCEPT !.transformItems = s] : s \in TransformInputs}

\* The module starts with inputs drawn from S: nothing has run, and every
\* stream is as its constructor leaves it.
InitFrom(S) ==
    /\ \E in \in S :
          /\ readableItems = in.readableItems
          /\ items = in.items
          /\ duplexReadItems = in.duplexReadItems
          /\ duplexWriteItems = in.duplexWriteItems
          /\ transformItems = in.transformItems
          /\ streams = [n \in Names |->
                           NewStream(IF n = "duplex" THEN in.autoDestroy ELSE TRUE)]
    /\ currentIndex = 0
    /\ duplexIndex = 0
    /\ console = [readable |-> <<>>, writable |-> <<>>, duplexRead |-> <<>>,
                  duplexWrite |-> <<>>, transform |-> <<>>]
    /\ ticks = <<>>
    /\ iter = NoIter
    /\ blocked = FALSE
    /\ phase = "micro"
    /\ pc = "readable_for"
    /\ i = 1
    /\ pushLog = {}
    /\ writeLog = {}

Init == InitFrom(Inputs)

\* The inputs of the program as it is, and those that vary what is written to
\* writable and nothing else.
InputsOfWritable ==
    {Literals} \cup {[Literals EXCEPT !.items = s] : s \in NumInputs}

\* The module runs: it is not suspended, and the nextTick queue is not being
\* run.
Running == ~blocked /\ (phase = "micro" \/ ticks = <<>>)

\* (mutant) an iterator that destroys the stream when it returns, whatever
\* autoDestroy is.
ForAwaitChunkDestroy(w, n, label, here, next) ==
    IF w.chunk # <<>>
    THEN /\ Commit([w EXCEPT !.console[label] = Append(@, w.chunk[1])])
         /\ pc' = here
         /\ phase' = "micro"
    ELSE IF w.iter.error = "null"
    THEN /\ Commit([Destroy(w, n) EXCEPT !.iter = NoIter])
         /\ pc' = next
         /\ phase' = "micro"
    ELSE /\ Commit([w EXCEPT !.blocked = TRUE])
         /\ pc' = here
         /\ phase' = "tick"

\* (mutant) an iterator that never destroys the stream when it returns.
ForAwaitChunkKeep(w, n, label, here, next) ==
    IF w.chunk # <<>>
    THEN /\ Commit([w EXCEPT !.console[label] = Append(@, w.chunk[1])])
         /\ pc' = here
         /\ phase' = "micro"
    ELSE IF w.iter.error = "null"
    THEN /\ Commit([w EXCEPT !.iter = NoIter])
         /\ pc' = next
         /\ phase' = "micro"
    ELSE /\ Commit([w EXCEPT !.blocked = TRUE])
         /\ pc' = here
         /\ phase' = "tick"

\* One promise job of `for await (const x of stream) console.log(label, x)`
\* after stream.read() has returned: the chunk is logged, or the loop returns
\* when 'end' has been seen (destroying the stream when autoDestroy is set),
\* or it suspends.
ForAwaitChunk(w, n, label, here, next) ==
    IF w.chunk # <<>>
    THEN /\ Commit([w EXCEPT !.console[label] = Append(@, w.chunk[1])])
         /\ pc' = here
         /\ phase' = "micro"
    ELSE IF w.iter.error = "null"
    THEN /\ Commit([(IF w.streams[n].autoDestroy THEN Destroy(w, n) ELSE w)
                       EXCEPT !.iter = NoIter])
         /\ pc' = next
         /\ phase' = "micro"
    ELSE /\ Commit([w EXCEPT !.blocked = TRUE])
         /\ pc' = here
         /\ phase' = "tick"

\* The first job creates the iterator (stream.on('readable', next) and eos);
\* each later one calls stream.read(), unless the stream is destroyed.
ForAwait(n, label, here, next) ==
    /\ Running
    /\ UNCHANGED <<inputs, i>>
    /\ IF iter.stream # n
       THEN /\ Commit(OnReadableListener(
                   [World EXCEPT !.iter = [stream |-> n, started |-> TRUE,
                                           error |-> "undefined"]], n))
            /\ pc' = here
            /\ phase' = "micro"
       ELSE ForAwaitChunk(IF streams[n].destroyed THEN World
                          ELSE Read(World, n, FALSE),
                          n, label, here, next)

\* for await (const num of readable) console.log('readable:', num)
ReadableLoop ==
    /\ pc = "readable_for"
    /\ ForAwait("readable", "readable", "readable_for", "writable_write")

\* for (const item of items) writable.write(item)
WritableLoop ==
    /\ pc = "writable_write" /\ Running /\ i <= Len(items)
    /\ Commit(Write(World, "writable", items[i]))
    /\ i' = i + 1
    /\ phase' = "micro"
    /\ UNCHANGED <<inputs, pc>>

\* writable.end()
WritableEnd ==
    /\ pc = "writable_write" /\ Running /\ i > Len(items)
    /\ Commit(End(World, "writable"))
    /\ pc' = "duplex_for"
    /\ i' = 1
    /\ phase' = "micro"
    /\ UNCHANGED inputs

\* for await (const item of duplex) console.log('duplex read:', item)
DuplexReadLoop ==
    /\ pc = "duplex_for"
    /\ ForAwait("duplex", "duplexRead", "duplex_for", "duplex_write")

\* for (const item of duplexWriteItems) duplex.write(item)
DuplexWriteLoop ==
    /\ pc = "duplex_write" /\ Running /\ i <= Len(duplexWriteItems)
    /\ Commit(Write(World, "duplex", duplexWriteItems[i]))
    /\ i' = i + 1
    /\ phase' = "micro"
    /\ UNCHANGED <<inputs, pc>>

\* duplex.end()
DuplexEnd ==
    /\ pc = "duplex_write" /\ Running /\ i > Len(duplexWriteItems)
    /\ Commit(End(World, "duplex"))
    /\ pc' = "transform_write"
    /\ i' = 1
    /\ phase' = "micro"
    /\ UNCHANGED inputs

\* for (const item of transformItems) transform.write(item)
TransformWriteLoop ==
    /\ pc = "transform_write" /\ Running
    /\ IF i <= Len(transformItems)
       THEN /\ Commit(Write(World, "transform", transformItems[i]))
            /\ i' = i + 1
            /\ pc' = pc
       ELSE /\ Commit(World)
            /\ i' = 1
            /\ pc' = "transform_for"
    /\ phase' = "micro"
    /\ UNCHANGED inputs

\* for await (const result of transform) console.log('transform', result)
TransformReadLoop ==
    /\ pc = "transform_for"
    /\ ForAwait("transform", "transform", "transform_for", "done")

\* The nextTick queue runs while the module is suspended; fn is the callback
\* at its head.
TickIs(fn) == phase = "tick" /\ ticks # <<>> /\ Head(ticks).fn = fn

\* The world with the head of the queue taken off.
Dequeued == [World EXCEPT !.ticks = Tail(@)]

EmitReadableTick ==
    /\ TickIs("emitReadable_")
    /\ Commit(EmitReadable_(Dequeued, Head(ticks).stream))
    /\ UNCHANGED <<inputs, pc, i, phase>>

MaybeReadMoreTick ==
    /\ TickIs("maybeReadMore_")
    /\ Commit(MaybeReadMore_(Dequeued, Head(ticks).stream))
    /\ UNCHANGED <<inputs, pc, i, phase>>

NReadingTick ==
    /\ TickIs("nReadingNextTick")
    /\ Commit(NReadingNextTick(Dequeued, Head(ticks).stream))
    /\ UNCHANGED <<inputs, pc, i, phase>>

EndReadableTick ==
    /\ TickIs("endReadableNT")
    /\ Commit(EndReadableNT(Dequeued, Head(ticks).stream))
    /\ UNCHANGED <<inputs, pc, i, phase>>

EmitCloseTick ==
    /\ TickIs("emitCloseNT")
    /\ Commit(EmitCloseNT(Dequeued, Head(ticks).stream))
    /\ UNCHANGED <<inputs, pc, i, phase>>

AfterWriteTickTick ==
    /\ TickIs("afterWriteTick")
    /\ Commit(AfterWriteTick(Dequeued, Head(ticks).stream))
    /\ UNCHANGED <<inputs, pc, i, phase>>

FinishTick ==
    /\ TickIs("finishNT")
    /\ Commit(FinishNT(Dequeued, Head(ticks).stream))
    /\ UNCHANGED <<inputs, pc, i, phase>>

Next ==
    \/ ReadableLoop
    \/ WritableLoop
    \/ WritableEnd
    \/ DuplexReadLoop
    \/ DuplexWriteLoop
    \/ DuplexEnd
    \/ TransformWriteLoop
    \/ TransformReadLoop
    \/ EmitReadableTick
    \/ MaybeReadMoreTick
    \/ NReadingTick
    \/ EndReadableTick
    \/ EmitCloseTick
    \/ AfterWriteTickTick
    \/ FinishTick

Spec == Init /\ [][Next]_vars

\* Node runs the module while it is not suspended, and the nextTick queue
\* until it is empty: stated for the steps that lie between writable.end() and
\* the 'finish' of writable.
FairSpec ==
    /\ InitFrom(InputsOfWritable)
    /\ [][Next]_vars
    /\ WF_vars(DuplexReadLoop)
    /\ WF_vars(EmitCloseTick)
    /\ WF_vars(AfterWriteTickTick)
    /\ WF_vars(FinishTick)

\* ------------------------------------------------------------- properties
IsPrefix(a, b) == Len(a) <= Len(b) /\ \A k \in 1..Len(a) : a[k] = b[k]

\* Node exits: the module is suspended and nothing is queued.
Exited == blocked /\ ticks = <<>>

AfterReadable == pc # "readable_for"
AfterWritable == pc \notin {"readable_for", "writable_write"}
AfterDuplexRead == pc \in {"duplex_write", "transform_write", "transform_for", "done"}
AfterDuplexWrite == pc \in {"transform_write", "transform_for", "done"}

\* How many write calls the module has made on writable and on duplex.
WritableWrites ==
    IF pc = "readable_for" THEN 0
    ELSE IF pc = "writable_write" THEN i - 1 ELSE Len(items)
DuplexWrites ==
    IF AfterDuplexWrite THEN Len(duplexWriteItems)
    ELSE IF pc = "duplex_write" THEN i - 1 ELSE 0

\* A history in which every call is followed by its completion before the
\* next call.
Alternates(ev) ==
    \A k \in 1..Len(ev) : ev[k] = IF k % 2 = 1 THEN "call" ELSE "done"

\* C1: whatever sequence the read callback of readable pushes, one item per
\* call and then null, the for-await loop logs exactly that sequence, in
\* order, nothing lost or repeated, and then sees the end exactly once; for
\* [1,2,3,4] it logs 1,2,3,4 and then ends.
C1_SourceInOrderThenEnd ==
    LET r == streams["readable"]
    IN /\ IsPrefix(console.readable, readableItems)
       /\ r.emitted.end <= 1
       /\ r.emitted.end = 1 => console.readable = readableItems
       /\ AfterReadable => console.readable = readableItems /\ r.emitted.end = 1
       /\ AfterReadable /\ readableItems = <<1, 2, 3, 4>>
              => console.readable = <<1, 2, 3, 4>>

C1_Witness ==
    /\ AfterReadable /\ readableItems = <<1, 2, 3, 4>>
    /\ console.readable = <<1, 2, 3, 4>> /\ streams["readable"].emitted.end = 1

C3_SinkEndsAfterDelivery ==
    LET s == streams["writable"]
    IN /\ [](s.w.finished =>
               /\ s.w.ending /\ s.emitted.finish = 1
               /\ console.writable = items
               /\ Len(s.events) = 2 * Len(items) /\ Alternates(s.events)
               /\ s.w.pendingcb = 0 /\ s.w.length = 0
               /\ items = <<1, 2, 3, 4>> => console.writable = <<1, 2, 3, 4>>)
       /\ (s.w.ending ~> s.w.finished)

C3_Witness ==
    /\ streams["writable"].w.finished /\ items = <<1, 2, 3, 4>>
    /\ console.writable = <<1, 2, 3, 4>>

\* The outputs of the mapping for a sequence of inputs, in the order of the
\* inputs.
Mapped(s) == [k \in 1..Len(s) |-> TransformTransform(s[k])]

C5_Original ==
    transformItems = TransformItemsLit /\ Len(console.transform) = 4
        => console.transform = <<"number: 1.0", "A", "number: 2.0", "B">>

\* C5 (amended): the input [1,'a',2,'b'] yields
\* ["number: 1.0","string: A","number: 2.0","string: B"], in that order.
C5_TransformScenario ==
    transformItems = TransformItemsLit =>
        /\ IsPrefix(console.transform,
                    <<"number: 1.0", "string: A", "number: 2.0", "string: B">>)
        /\ Exited => Len(console.transform) = 4

C5_Witness ==
    /\ transformItems = TransformItemsLit
    /\ console.transform = <<"number: 1.0", "string: A", "number: 2.0", "string: B">>

\* C6: with autoDestroy false, after the duplex has been read to its end
\* every write is accepted and handed to the write callback, and end()
\* finishes the write side; and the write side ending leaves the read side
\* as it was: ended once, not errored, with every item read.
C6_DuplexSidesIndependent ==
    LET d == streams["duplex"]
    IN ~d.autoDestroy =>
          /\ ~d.destroyed /\ d.errored = ""
          /\ AfterDuplexRead => console.duplexRead = duplexReadItems /\ d.emitted.end = 1
          /\ console.duplexWrite = SubSeq(duplexWriteItems, 1, DuplexWrites)
          /\ \A e \in writeLog : e.stream = "duplex" => e.ret
          /\ AfterDuplexWrite => d.w.ending
          /\ Exited => d.w.finished
          /\ d.w.finished => /\ console.duplexWrite = duplexWriteItems
                             /\ console.duplexRead = duplexReadItems
                             /\ d.r.endEmitted /\ d.emitted.finish = 1

C6_Witness ==
    /\ ~streams["duplex"].autoDestroy /\ streams["duplex"].w.finished
    /\ console.duplexRead = <<1, 2, 3, 4>>
    /\ console.duplexWrite = <<"a", "b", "c", "d">>

C8_PauseSignalAtHighWaterMark ==
    /\ \A e \in pushLog : e.ret = (e.length < HighWaterMark)
    /\ \A e \in writeLog : e.ret = (e.length < HighWaterMark)

C8_Witness ==
    /\ \E e \in pushLog : ~e.ret /\ e.length = HighWaterMark
    /\ \E e \in pushLog : e.ret /\ e.length = HighWaterMark - 1
    /\ \E e \in writeLog : ~e.ret /\ e.length = HighWaterMark
    /\ \E e \in writeLog : e.ret /\ e.length = HighWaterMark - 1

\* A write on stream n has returned false.
Paused(n) == \E e \in writeLog : e.stream = n /\ ~e.ret

\* C9: a stream emits 'drain' at most once, only after one of its writes has
\* returned false and with its buffered volume back below highWaterMark; and
\* when a write has returned false 'drain' has been emitted by the time Node
\* exits.
C9_OneDrainPerPause ==
    \A n \in WritableNames :
        LET s == streams[n]
        IN /\ s.emitted.drain <= 1
           /\ s.emitted.drain = 1 => Paused(n) /\ s.w.length < HighWaterMark
           /\ Exited /\ Paused(n) => s.emitted.drain = 1

C9_Witness ==
    /\ Paused("transform") /\ streams["transform"].emitted.drain = 1
    /\ streams["transform"].w.length = 0

\* What has been delivered from or to stream n.
Delivered(n) ==
    CASE n = "readable" -> <<console.readable>>
      [] n = "writable" -> <<console.writable>>
      [] n = "duplex" -> <<console.duplexRead, console.duplexWrite>>
      [] n = "transform" -> <<console.transform>>

C14_RunsToCompletion ==
    Exited => /\ pc = "done"
              /\ \A n \in ReadableNames : streams[n].emitted.end = 1

\* The read side of the duplex: its state, what its reader has seen, how far
\* its read callback has got, and the error of the stream.
DuplexReadSide ==
    <<streams["duplex"].r, console.duplexRead, duplexIndex,
      streams["duplex"].readCalls, streams["duplex"].eofs,
      streams["duplex"].emitted.end, streams["duplex"].errored>>

\* The write side of the duplex.
DuplexWriteSide ==
    <<streams["duplex"].w, console.duplexWrite, streams["duplex"].events,
      streams["duplex"].emitted.finish, streams["duplex"].emitted.drain>>

\* C17: a step that changes the write side of the duplex (a write, the
\* completion of a write, end(), 'finish') leaves its read side as it was, and
\* what the reader has seen and what waits in the read buffer is always the
\* beginning of duplexReadItems: nothing written ever shows up there.
C17_DuplexWriteLeavesReadSide ==
    /\ [][DuplexWriteSide' # DuplexWriteSide => DuplexReadSide' = DuplexReadSide]_vars
    /\ [](IsPrefix(console.duplexRead \o streams["duplex"].r.buffer, duplexReadItems))

C17_Witness ==
    /\ pc = "duplex_write" /\ i = 3
    /\ console.duplexWrite = <<"a", "b">>
    /\ console.duplexRead = <<1, 2, 3, 4>>
    /\ streams["duplex"].r.endEmitted /\ streams["duplex"].w.pendingcb = 2

\* How many times the mapping has been called.
TransformCalls == Len(streams["transform"].events) \div 2

\* C18: the mapping is entered only after the call before it has called next
\* and its value has been pushed: calls and completions alternate, every
\* value of a call is in the read buffer or with the reader, an input waits
\* in the write buffer only while the completion of the one before it is held
\* back, and the held completion stops the calls at highWaterMark values when
\* everything is written before anything is read.
C18_OneMappingInFlight ==
    LET s == streams["transform"]
    IN /\ Alternates(s.events)
       /\ TransformCalls = Len(console.transform) + Len(s.r.buffer)
       /\ Len(s.r.buffer) <= HighWaterMark
       /\ s.w.buffered # <<>> => s.w.writing /\ s.kCallback
       /\ s.kCallback => s.w.writing /\ Len(s.r.buffer) = HighWaterMark
       /\ pc = "transform_for" /\ iter.stream # "transform" =>
             TransformCalls = IF Len(transformItems) < HighWaterMark
                              THEN Len(transformItems) ELSE HighWaterMark

C18_Witness ==
    /\ pc = "transform_for" /\ console.transform = <<>>
    /\ streams["transform"].kCallback
    /\ Len(streams["transform"].w.buffered) > 1
    /\ TransformCalls = HighWaterMark

\* C19: the read callbacks of readable and duplex are entered only while an
\* iterator is listening to the stream, fewer than highWaterMark items are
\* buffered and null has not been pushed; each pushes null once, after one
\* call for each item, and never pushes after it.
C19_ReadCalledOnDemand ==
    /\ \A n \in {"readable", "duplex"} :
          /\ \A e \in streams[n].readLog :
                e.listening /\ e.length < HighWaterMark /\ ~e.ended
          /\ streams[n].eofs <= 1
          /\ streams[n].errored = ""
    /\ streams["readable"].readCalls = currentIndex + streams["readable"].eofs
    /\ streams["duplex"].readCalls = duplexIndex + streams["duplex"].eofs
    /\ AfterReadable => /\ streams["readable"].eofs = 1
                        /\ streams["readable"].readCalls = Len(readableItems) + 1
    /\ AfterDuplexRead => /\ streams["duplex"].eofs = 1
                          /\ streams["duplex"].readCalls = Len(duplexReadItems) + 1

C19_Witness ==
    /\ AfterReadable /\ Len(readableItems) > HighWaterMark
    /\ streams["readable"].readCalls = Len(readableItems) + 1
    /\ streams["readable"].eofs = 1 /\ Exited

\* How many write calls the module has made on transform.
TransformWrites ==
    IF pc \in {"transform_for", "done"} THEN Len(transformItems)
    ELSE IF pc = "transform_write" THEN i - 1 ELSE 0

\* C20: the program never looks at what write returns, and every item it
\* writes is kept, also those whose write returned false: each has been
\* handed to the callback or waits in the write buffer, in the order written,
\* so state.length can pass highWaterMark; and when Node exits every item
\* written to the transform has been handed to the mapping, in order.
C20_WritePastHighWaterMarkKept ==
    LET s == streams["transform"]
    IN /\ TransformCalls + Len(s.w.buffered) = TransformWrites
       /\ s.w.buffered = SubSeq(transformItems, TransformCalls + 1, TransformWrites)
       /\ console.transform \o s.r.buffer
              = Mapped(SubSeq(transformItems, 1, TransformCalls))
       /\ Exited => TransformCalls = Len(transformItems)
       /\ console.writable = SubSeq(items, 1, WritableWrites)

C20_Witness ==
    /\ Exited /\ TransformCalls = Len(transformItems)
    /\ \E e \in writeLog :
          e.stream = "transform" /\ ~e.ret /\ e.length > HighWaterMark

====
